---- MODULE Spec2Model ----
(***************************************************************************)
(* carcols_normalizer.py: normalisation of runs of <Item>...</Item> blocks *)
(* in carcols.meta files.                                                  *)
(*                                                                         *)
(* A text is a sequence of lexemes, each lexeme being the exact string it  *)
(* stands for: one whitespace character, one complete tag, or one word     *)
(* holding no '<', no '>' and no whitespace.  Joining the lexemes gives    *)
(* the file's text; the two regular expressions of the program are         *)
(* translated to matching over lexemes.  Offsets are Python's: 0-based,    *)
(* spans half-open [start, end).                                           *)
(***************************************************************************)
EXTENDS Integers, Sequences, FiniteSets, TLC

\* ------------------------------------------------------------------ text

At(text, k) == text[k + 1]

Slice(text, s, e) == SubSeq(text, s + 1, e)

\* [ \t] of ITEM_RE; \s of TYPE_RE and of the gap test.
IndentChars == {" ", "\t"}

Whitespace == {" ", "\t", "\n"}

ITEM_OPEN == "<Item>"

ITEM_CLOSE == "</Item>"

TYPE_OPEN == "<type>"

TYPE_CLOSE == "</type>"

COMMENT == "<!-- c -->"

KITS_OPEN == "<Kits>"

KITS_CLOSE == "</Kits>"

IDENTIFIER == "<identifier />"

AUDIO_APPLY == "<audioApply value=\"1.000000\" />"

WEIGHT == "<weight value=\"0\" />"

ModifierTag(val) == "<modifier value=\"" \o ToString(val) \o "\" />"

\* The lexemes that start with '<' (all of them tags); [^<] is any other.
Tags ==
    {ITEM_OPEN, ITEM_CLOSE, TYPE_OPEN, TYPE_CLOSE, COMMENT, KITS_OPEN,
     KITS_CLOSE, IDENTIFIER, AUDIO_APPLY, WEIGHT} \cup {ModifierTag(v) : v \in {25, 50, 75, 100}}

\* str.upper() on one lexeme: the only lexeme with lower-case letters outside
\* a tag is the word vmt_engine.
UpperTok(tok) == IF tok = "vmt_engine" THEN "VMT_ENGINE" ELSE tok

Upper(s) == [k \in 1..Len(s) |-> UpperTok(s[k])]

RECURSIVE LStrip(_)
LStrip(s) ==
    IF s # <<>> /\ Head(s) \in Whitespace THEN LStrip(Tail(s)) ELSE s

RECURSIVE RStrip(_)
RStrip(s) ==
    IF s # <<>> /\ s[Len(s)] \in Whitespace
    THEN RStrip(SubSeq(s, 1, Len(s) - 1))
    ELSE s

\* str.strip()
Strip(s) == RStrip(LStrip(s))

\* The value of vtype when TYPE_RE finds nothing; no lexeme is "None".
None == <<"None">>

\* ------------------------------------------------------------ TYPE_RE

\* [^<]+ from offset k: the offset after the longest stretch of lexemes that
\* do not start with '<'.
RECURSIVE SkipText(_, _)
SkipText(inner, k) ==
    IF k < Len(inner) /\ At(inner, k) \notin Tags
    THEN SkipText(inner, k + 1)
    ELSE k

\* TYPE_RE matches at offset k: <type>, one or more characters other than '<',
\* then </type>.
TypeMatchAt(inner, k) ==
    /\ At(inner, k) = TYPE_OPEN
    /\ LET e == SkipText(inner, k + 1)
       IN  e > k + 1 /\ e < Len(inner) /\ At(inner, e) = TYPE_CLOSE

RECURSIVE TypeSearch(_, _)
TypeSearch(inner, k) ==
    IF k >= Len(inner) THEN -1
    ELSE IF TypeMatchAt(inner, k) THEN k
    ELSE TypeSearch(inner, k + 1)

\* tm = TYPE_RE.search(inner); vtype = tm.group(1).strip() if tm else None
\* group(1) differs from the whole stretch only by leading whitespace.
TypeOf(inner) ==
    LET k == TypeSearch(inner, 0)
    IN  IF k < 0 THEN None
        ELSE Strip(Slice(inner, k + 1, SkipText(inner, k + 1)))

\* ------------------------------------------------------------ ITEM_RE

\* ITEM_RE without its '^'.
IsLineStart_anywhere(text, p) == TRUE

\* '^' under re.M
IsLineStart(text, p) == p = 0 \/ At(text, p - 1) = "\n"

\* [ \t]* from offset p
RECURSIVE SkipIndent(_, _)
SkipIndent(text, p) ==
    IF p < Len(text) /\ At(text, p) \in IndentChars
    THEN SkipIndent(text, p + 1)
    ELSE p

\* .*?</Item> from offset q: the offset of the nearest </Item>, or -1.
RECURSIVE FindClose(_, _)
FindClose(text, q) ==
    IF q >= Len(text) THEN -1
    ELSE IF At(text, q) = ITEM_CLOSE THEN q
    ELSE FindClose(text, q + 1)

\* ITEM_RE matches with its start at offset p.
ItemMatchAt(text, p) ==
    /\ IsLineStart(text, p)
    /\ LET q == SkipIndent(text, p)
       IN  /\ q < Len(text)
           /\ At(text, q) = ITEM_OPEN
           /\ FindClose(text, q + 1) >= 0

\* The leftmost offset >= pos where ITEM_RE matches, or -1.
RECURSIVE ItemSearch(_, _)
ItemSearch(text, pos) ==
    IF pos >= Len(text) THEN -1
    ELSE IF ItemMatchAt(text, pos) THEN pos
    ELSE ItemSearch(text, pos + 1)

\* One match of ITEM_RE as scan_items yields it.
ItemAt(text, p) ==
    LET q == SkipIndent(text, p)
        c == FindClose(text, q + 1)
    IN  [start |-> p, end |-> c + 1, indent |-> Slice(text, p, q),
         vtype |-> TypeOf(Slice(text, q + 1, c))]

RECURSIVE ScanFrom(_, _)
ScanFrom(text, pos) ==
    LET p == ItemSearch(text, pos)
    IN  IF p < 0 THEN <<>>
        ELSE LET b == ItemAt(text, p)
             IN  <<b>> \o ScanFrom(text, b.end)

scan_items(text) == ScanFrom(text, 0)

\* -------------------------------------------------------- build_items

ModifierValues == <<25, 50, 75, 100>>

render_item(indent, vtype, val) ==
    indent \o <<ITEM_OPEN, "\n">>
    \o indent \o <<" ", " ", IDENTIFIER, "\n">>
    \o indent \o <<" ", " ", ModifierTag(val), "\n">>
    \o indent \o <<" ", " ", AUDIO_APPLY, "\n">>
    \o indent \o <<" ", " ", WEIGHT, "\n">>
    \o indent \o <<" ", " ", TYPE_OPEN>> \o vtype \o <<TYPE_CLOSE, "\n">>
    \o indent \o <<ITEM_CLOSE, "\n">>

\* build_items with the values taken in descending order.
build_items_descending(indent, vtype) ==
    render_item(indent, vtype, ModifierValues[4])
    \o render_item(indent, vtype, ModifierValues[3])
    \o render_item(indent, vtype, ModifierValues[2])
    \o render_item(indent, vtype, ModifierValues[1])

build_items(indent, vtype) ==
    render_item(indent, vtype, ModifierValues[1])
    \o render_item(indent, vtype, ModifierValues[2])
    \o render_item(indent, vtype, ModifierValues[3])
    \o render_item(indent, vtype, ModifierValues[4])

\* --------------------------------------------------------------- main

\* targets = {"VMT_GEARBOX", "VMT_BRAKES", "VMT_ENGINE"}
targets == {<<"VMT_GEARBOX">>, <<"VMT_BRAKES">>, <<"VMT_ENGINE">>}

\* The words that start with VMT_.
VmtWords ==
    {"VMT_GEARBOX", "VMT_BRAKES", "VMT_ENGINE", "VMT_SUSPENSION",
     "VMT_CUSTOM_XYZ"}

\* s.startswith("VMT_")
StartsWithVMT(s) == s # <<>> /\ s[1] \in VmtWords

\* not vtype  (None or the empty string)
Falsy(vtype) == vtype = None \/ vtype = <<>>

\* not vtype or not vtype.upper().startswith("VMT_")
NoVmtType(vtype) == Falsy(vtype) \/ ~StartsWithVMT(Upper(vtype))

\* The inclusion test without the allow-list.
NotTargeted_never(any, v) == FALSE

\* not args.any and vt not in targets
NotTargeted(any, v) == ~any /\ v \notin targets

\* The gap test accepting any text between two blocks.
IsBlank_always(between) == TRUE

\* re.fullmatch(r"\s*", between, re.S)
IsBlank(between) == \A k \in 1..Len(between) : between[k] \in Whitespace

\* The test of the inner while loop on the candidate items[j].
Extends(txt, gend, v, cand) ==
    /\ ~Falsy(cand.vtype)
    /\ Upper(Strip(cand.vtype)) = v
    /\ IsBlank(Slice(txt, gend, cand.start))

\* The replacement loop continuing from the start of the run it replaced.
NextPos_start(s, e) == s

\* The offset the replacement loop continues from after the run [s, e).
NextPos(s, e) == e

\* "Apply replacements": new_parts joined, continuing from offset pos with the
\* groups from index k on.
RECURSIVE SpliceFrom(_, _, _, _)
SpliceFrom(txt, gs, k, pos) ==
    IF k > Len(gs) THEN Slice(txt, pos, Len(txt))
    ELSE Slice(txt, pos, gs[k].start)
         \o build_items(gs[k].indent, gs[k].vtype)
         \o SpliceFrom(txt, gs, k + 1, NextPos(gs[k].start, gs[k].end))

Splice(txt, gs) == SpliceFrom(txt, gs, 1, 0)

\* -------------------------------------------------------------- inputs

MaxLines == 3

NumFiles == 2

MaxExec == 2

Block(inner) == <<ITEM_OPEN>> \o inner \o <<ITEM_CLOSE>>

TypeTag(words) == <<TYPE_OPEN>> \o words \o <<TYPE_CLOSE>>

Engine == Block(TypeTag(<<"VMT_ENGINE">>))

\* The lines a generated text is made of.
Lines ==
    { Engine \o <<"\n">>,
      <<" ", " ">> \o Block(TypeTag(<<" ", "vmt_engine", "\n">>)) \o <<"\n">>,
      Block(TypeTag(<<"VMT_BRAKES">>)) \o <<"\n">>,
      Block(TypeTag(<<"VMT_SUSPENSION">>)) \o <<"\n">>,
      Block(TypeTag(<<>>) \o TypeTag(<<"VMT_ENGINE">>)) \o <<"\n">>,
      <<COMMENT>> \o Engine \o <<"\n">>,
      <<COMMENT, "\n">> }

RECURSIVE TextsOf(_)
TextsOf(n) ==
    IF n = 0 THEN {<<>>}
    ELSE LET shorter == TextsOf(n - 1)
         IN  shorter \cup {t \o l : t \in shorter, l \in Lines}

RECURSIVE Repeat(_, _)
Repeat(t, n) == IF n = 0 THEN <<>> ELSE t \o Repeat(t, n - 1)

\* Files of a few Item lists between a header and a footer line.
Header == <<KITS_OPEN, "\n">>

Footer == <<KITS_CLOSE, "\n">>

ItemLine(w) == <<" ", " ">> \o Block(TypeTag(<<w>>)) \o <<"\n">>

ScenarioA == Header \o Repeat(ItemLine("VMT_ENGINE"), 6) \o Footer

ScenarioB ==
    Header \o Repeat(ItemLine("VMT_ENGINE"), 2) \o <<"\n">>
         \o Repeat(ItemLine("VMT_ENGINE"), 3) \o Footer

ScenarioC ==
    Header \o Repeat(ItemLine("VMT_ENGINE"), 2) \o <<" ", " ", COMMENT, "\n">>
         \o Repeat(ItemLine("VMT_ENGINE"), 3) \o Footer

ScenarioD == Header \o Repeat(ItemLine("VMT_SUSPENSION"), 2) \o Footer

ScenarioE == Header \o ItemLine("VMT_CUSTOM_XYZ") \o ItemLine("VMT_GEARBOX") \o Footer

ScenarioTexts ==
    {ScenarioA, ScenarioB, ScenarioC, ScenarioD, ScenarioE, Header \o Footer, <<>>}

\* Single texts with a type tag or a line the generated lines do not have, or
\* no final line break.
EdgeTexts ==
    { Block(TypeTag(<<" ">>) \o TypeTag(<<"VMT_ENGINE">>)),
      Block(TypeTag(<<"VMT_BRAKES">>) \o TypeTag(<<"VMT_ENGINE">>)) \o <<"\n">>
          \o Block(TypeTag(<<"VMT_BRAKES">>)),
      Block(TypeTag(<<"OTHER">>)) \o <<"\n">> \o Engine,
      Block(TypeTag(<<COMMENT>>) \o TypeTag(<<"VMT_GEARBOX">>)) \o <<"\n", "\t">>
          \o Block(<<"\n">> \o TypeTag(<<"VMT_GEARBOX">>) \o <<"\n">>),
      Engine \o Engine \o <<"\n">> \o Engine,
      Engine \o <<"\n">> \o Block(<<IDENTIFIER>>) \o <<"\n", "\n">> \o Engine,
      <<ITEM_OPEN, "\n">> \o Engine \o <<"\n", ITEM_CLOSE, "\n">> }

\* The files of a tree of several.
TreeTexts == {ScenarioA, ScenarioD, ScenarioE, Header \o Footer}

RECURSIVE TreesOf(_)
TreesOf(n) ==
    IF n = 0 THEN {<<>>}
    ELSE LET smaller == TreesOf(n - 1)
         IN  smaller \cup {d \o <<t>> : d \in smaller, t \in TreeTexts}

\* The trees main may find: up to NumFiles files, or one file holding any
\* scenario, generated or edge text.
Trees ==
    TreesOf(NumFiles)
    \cup {<<t>> : t \in ScenarioTexts \cup TextsOf(MaxLines) \cup EdgeTexts}

\* ---------------------------------------------------------------- state

VARIABLES
    args,           \* the parsed command line: any, dry_run
    disk,           \* disk[m]: the content of the m-th file root.rglob yields
    bak,            \* bak[m]: the content of its .bak copy, NoFile if none
    exec,           \* how many times main has been started on this tree
    pc,             \* where main is
    meta,           \* the index of the file of the current for iteration
    text, items, groups, i, j,
    group_start, group_end, group_indent, vt,
    new_text,
    updated,
    out             \* what main has printed

vars ==
    <<args, disk, bak, exec, pc, meta, text, items, groups, i, j,
      group_start, group_end, group_indent, vt, new_text, updated, out>>

locals ==
    <<text, items, groups, i, j, group_start, group_end, group_indent, vt,
      new_text>>

files == <<disk, bak>>

group_vars == <<group_start, group_end, group_indent>>

NoFile == <<"NoFile">>

\* The variables of main before their first assignment.
Unbound ==
    /\ text = <<>> /\ items = <<>> /\ groups = <<>> /\ i = 0 /\ j = 0
    /\ group_start = 0 /\ group_end = 0 /\ group_indent = <<>> /\ vt = <<>>
    /\ new_text = <<>>

Init ==
    /\ args \in [any : BOOLEAN, dry_run : BOOLEAN]
    /\ disk \in Trees
    /\ bak = [m \in DOMAIN disk |-> NoFile]
    /\ exec = 1
    /\ pc = "for"
    /\ meta = 0
    /\ updated = 0
    /\ out = <<>>
    /\ Unbound

Say(kind, n) == out' = Append(out, [kind |-> kind, meta |-> meta, n |-> n])

\* for meta in root.rglob(args.name): the next file is read and scanned; with
\* no Item block the iteration ends here, otherwise the grouping loop starts.
ScanFile ==
    /\ pc = "for" /\ meta < Len(disk)
    /\ meta' = meta + 1
    /\ text' = disk[meta + 1]
    /\ items' = scan_items(disk[meta + 1])
    /\ IF items' = <<>>
       THEN /\ out' = Append(out, [kind |-> "No <Item> blocks",
                                   meta |-> meta + 1, n |-> 0])
            /\ UNCHANGED <<pc, groups, i>>
       ELSE /\ groups' = <<>>
            /\ i' = 0
            /\ pc' = "while"
            /\ UNCHANGED out
    /\ UNCHANGED <<args, files, exec, j, group_vars, vt, new_text, updated>>

\* items[i] has no type, an empty one, or one that does not start with VMT_.
SkipNoVmt ==
    /\ pc = "while" /\ i < Len(items)
    /\ NoVmtType(At(items, i).vtype)
    /\ i' = i + 1
    /\ UNCHANGED <<args, files, exec, pc, meta, text, items, groups, j,
                   group_vars, vt, new_text, updated, out>>

\* items[i] is a VMT_ type outside targets, and --any is off.
SkipNotTargeted ==
    /\ pc = "while" /\ i < Len(items)
    /\ ~NoVmtType(At(items, i).vtype)
    /\ vt' = Upper(At(items, i).vtype)
    /\ NotTargeted(args.any, vt')
    /\ i' = i + 1
    /\ UNCHANGED <<args, files, exec, pc, meta, text, items, groups, j,
                   group_vars, new_text, updated, out>>

\* items[i] starts a run.
StartRun ==
    /\ pc = "while" /\ i < Len(items)
    /\ ~NoVmtType(At(items, i).vtype)
    /\ vt' = Upper(At(items, i).vtype)
    /\ ~NotTargeted(args.any, vt')
    /\ j' = i + 1
    /\ group_start' = At(items, i).start
    /\ group_end' = At(items, i).end
    /\ group_indent' = At(items, i).indent
    /\ pc' = "inner"
    /\ UNCHANGED <<args, files, exec, meta, text, items, groups, i, new_text,
                   updated, out>>

\* The run takes items[j] in.
ExtendRun ==
    /\ pc = "inner" /\ j < Len(items)
    /\ Extends(text, group_end, vt, At(items, j))
    /\ group_end' = At(items, j).end
    /\ j' = j + 1
    /\ UNCHANGED <<args, files, exec, pc, meta, text, items, groups, i,
                   group_start, group_indent, vt, new_text, updated, out>>

\* The outer loop stepping over the block the run stopped at.
ResumeAt_skip(jj) == jj + 1

\* The index the outer loop continues from after a run that stopped at jj.
ResumeAt(jj) == jj

\* The run stops at items[j] or at the end of items, and is appended.
EmitRun ==
    /\ pc = "inner"
    /\ ~(j < Len(items) /\ Extends(text, group_end, vt, At(items, j)))
    /\ groups' = Append(groups, [start |-> group_start, end |-> group_end,
                                 indent |-> group_indent, vtype |-> vt])
    /\ i' = ResumeAt(j)
    /\ pc' = "while"
    /\ UNCHANGED <<args, files, exec, meta, text, items, j, group_vars, vt,
                   new_text, updated, out>>

\* The file without a run ending the whole loop instead of its iteration.
NoRuns_stop ==
    /\ pc = "while" /\ i >= Len(items)
    /\ groups = <<>>
    /\ Say("No matching VMT items", 0)
    /\ pc' = "done"
    /\ UNCHANGED <<args, files, exec, meta, locals, updated>>

\* The grouping loop ended without a run.
NoRuns ==
    /\ pc = "while" /\ i >= Len(items)
    /\ groups = <<>>
    /\ Say("No matching VMT items", 0)
    /\ pc' = "for"
    /\ UNCHANGED <<args, files, exec, meta, locals, updated>>

\* The grouping loop ended with runs: the replacements are applied.
Apply ==
    /\ pc = "while" /\ i >= Len(items)
    /\ groups # <<>>
    /\ new_text' = Splice(text, groups)
    /\ pc' = "apply"
    /\ UNCHANGED <<args, files, exec, meta, text, items, groups, i, j,
                   group_vars, vt, updated, out>>

DryRun ==
    /\ pc = "apply" /\ args.dry_run
    /\ Say("[DRY] would replace", Len(groups))
    /\ pc' = "for"
    /\ UNCHANGED <<args, files, exec, meta, locals, updated>>

\* The backup step keeping a .bak file that is already there.
Backup_once ==
    /\ pc = "apply" /\ ~args.dry_run
    /\ bak' = IF bak[meta] = NoFile THEN [bak EXCEPT ![meta] = disk[meta]]
              ELSE bak
    /\ pc' = "write"
    /\ UNCHANGED <<args, disk, exec, meta, locals, updated, out>>

\* shutil.copy2(meta, meta.with_suffix(meta.suffix + ".bak"))
Backup ==
    /\ pc = "apply" /\ ~args.dry_run
    /\ bak' = [bak EXCEPT ![meta] = disk[meta]]
    /\ pc' = "write"
    /\ UNCHANGED <<args, disk, exec, meta, locals, updated, out>>

\* meta.write_text(new_text); updated += 1
Write ==
    /\ pc = "write"
    /\ disk' = [disk EXCEPT ![meta] = new_text]
    /\ Say("Updated", Len(groups))
    /\ updated' = updated + 1
    /\ pc' = "for"
    /\ UNCHANGED <<args, bak, exec, meta, locals>>

\* The for loop is over: print(f"\nDone. Files updated: {updated}")
Done ==
    /\ pc = "for" /\ meta >= Len(disk)
    /\ Say("Done. Files updated", updated)
    /\ pc' = "done"
    /\ UNCHANGED <<args, files, exec, meta, locals, updated>>

\* The same command is run again on the tree it left; a dry run leaves the
\* tree as it found it, and only a run that may write is followed up.
Rerun ==
    /\ pc = "done" /\ exec < MaxExec
    /\ ~args.dry_run
    /\ exec' = exec + 1
    /\ pc' = "for"
    /\ meta' = 0
    /\ updated' = 0
    /\ out' = <<>>
    /\ text' = <<>> /\ items' = <<>> /\ groups' = <<>> /\ i' = 0 /\ j' = 0
    /\ group_start' = 0 /\ group_end' = 0 /\ group_indent' = <<>>
    /\ vt' = <<>> /\ new_text' = <<>>
    /\ UNCHANGED <<args, files>>

Next ==
    \/ ScanFile
    \/ SkipNoVmt \/ SkipNotTargeted \/ StartRun
    \/ ExtendRun \/ EmitRun
    \/ NoRuns \/ Apply
    \/ DryRun \/ Backup \/ Write
    \/ Done \/ Rerun

Spec == Init /\ [][Next]_vars

\* ----------------------------------------------------------- properties

\* text, items and groups are those of the file being processed.
InFile == pc \in {"while", "inner", "apply", "write"}

\* The grouping loop has ended with runs and new_text has just been computed.
Grouped == pc = "apply"

\* The inclusion policy in the words of the Run Grouper's contract.
Qualifying(b) ==
    /\ b.vtype # None
    /\ b.vtype # <<>>
    /\ Upper(b.vtype)[1] \in VmtWords
    /\ args.any \/ Upper(b.vtype) \in targets

\* Block b lies within the span of run g.
Within(b, g) == g.start <= b.start /\ b.end <= g.end

Rendered(g) == build_items(g.indent, g.vtype)

\* By how much the runs gs[1..k] lengthen the text.
RECURSIVE ShiftTo(_, _)
ShiftTo(gs, k) ==
    IF k = 0 THEN 0
    ELSE ShiftTo(gs, k - 1) + Len(Rendered(gs[k])) - (gs[k].end - gs[k].start)

\* The number of runs that end at or before offset p.
EndedBy(gs, p) == Cardinality({k \in 1..Len(gs) : gs[k].end <= p})

InSomeRun(gs, p) == \E k \in 1..Len(gs) : gs[k].start <= p /\ p < gs[k].end

\* The start in new_text of the replacement of run k.
NewStart(gs, k) == gs[k].start + ShiftTo(gs, k - 1)

Count(s, tok) == Cardinality({k \in 1..Len(s) : s[k] = tok})

\* C2 (Preservation): once the replacements are applied, new_text is the text
\* with each run span replaced by its rendering: every lexeme outside the run
\* spans is found unchanged at its offset moved by the runs before it, each
\* rendering stands where its run started, and the length is that of the text
\* plus what the runs add, so nothing else is inserted.
C2_Preservation ==
    Grouped =>
        LET n == Len(groups)
        IN  /\ Len(new_text) = Len(text) + ShiftTo(groups, n)
            /\ \A p \in 0..(Len(text) - 1) :
                   ~InSomeRun(groups, p) =>
                       At(new_text, p + ShiftTo(groups, EndedBy(groups, p)))
                           = At(text, p)
            /\ \A k \in 1..n :
                   Slice(new_text, NewStart(groups, k),
                         NewStart(groups, k) + Len(Rendered(groups[k])))
                       = Rendered(groups[k])

\* Two runs with text before, between and after them, the text between not
\* blank.
C2_Witness ==
    /\ Grouped
    /\ Len(groups) >= 2
    /\ groups[1].start > 0
    /\ groups[Len(groups)].end < Len(text)
    /\ \E p \in groups[1].end..(groups[2].start - 1) :
           At(text, p) \notin Whitespace

\* The lexemes of new_text that replace run k.
NewRun(k) ==
    Slice(new_text, NewStart(groups, k),
          NewStart(groups, k) + Len(Rendered(groups[k])))

\* What is between the opening and the closing tag of block b of text t.
InnerOf(t, b) == Slice(t, b.start + Len(b.indent) + 1, b.end - 1)

\* C3 (Run completeness): every run is replaced by exactly four Item blocks
\* and nothing else, the n-th holding the n-th of the modifier values 25, 50,
\* 75, 100 and no other, one empty identifier, audioApply 1.000000, weight 0,
\* the run's type and the run's indentation; the run's type and indentation
\* are the trimmed upper-cased type and the indentation of its first block;
\* the Item tags of new_text are those outside the runs plus four per run.
C3_RunCompleteness ==
    Grouped =>
        /\ \A k \in 1..Len(groups) :
               LET g == groups[k]
                   first == CHOOSE b \in {items[m] : m \in 1..Len(items)} :
                                b.start = g.start
                   R == NewRun(k)
                   bs == scan_items(R)
               IN  /\ g.vtype = Upper(Strip(first.vtype))
                   /\ g.indent = first.indent
                   /\ Count(R, ITEM_OPEN) = 4 /\ Count(R, ITEM_CLOSE) = 4
                   /\ Len(bs) = 4
                   /\ bs[1].start = 0 /\ bs[4].end + 1 = Len(R)
                   /\ \A n \in 1..3 : bs[n + 1].start = bs[n].end + 1
                   /\ \A n \in 1..4 :
                          LET inner == InnerOf(R, bs[n])
                          IN  /\ bs[n].vtype = g.vtype
                              /\ bs[n].indent = g.indent
                              /\ \A v \in {25, 50, 75, 100} :
                                     Count(inner, ModifierTag(v))
                                         = IF v = <<25, 50, 75, 100>>[n] THEN 1 ELSE 0
                              /\ Count(inner, IDENTIFIER) = 1
                              /\ Count(inner, AUDIO_APPLY) = 1
                              /\ Count(inner, WEIGHT) = 1
        /\ Count(new_text, ITEM_OPEN)
               = Cardinality({p \in 0..(Len(text) - 1) :
                                 ~InSomeRun(groups, p) /\ At(text, p) = ITEM_OPEN})
                 + 4 * Len(groups)

\* A run of one block and a run of several whose first block is indented and
\* has its type in lower case.
C3_Witness ==
    /\ Grouped
    /\ \E k \in 1..Len(groups) :
           Cardinality({m \in 1..Len(items) : Within(items[m], groups[k])}) = 1
    /\ \E k \in 1..Len(groups), m \in 1..Len(items) :
           /\ items[m].start = groups[k].start
           /\ items[m].vtype # groups[k].vtype
           /\ groups[k].indent # <<>>
           /\ Cardinality({n \in 1..Len(items) : Within(items[n], groups[k])}) > 1

\* Blocks k and k+1 of items (counted from 1) lie in the same run.
SameRun(k) ==
    \E m \in 1..Len(groups) :
        Within(items[k], groups[m]) /\ Within(items[k + 1], groups[m])

\* Only whitespace between blocks k and k+1 of items.
BlankGap(k) ==
    \A p \in items[k].end..(items[k + 1].start - 1) :
        At(text, p) \in {" ", "\t", "\n"}

\* C4 (Gap rule): two qualifying blocks that follow each other in scan order
\* and have the same type up to case are in the same run if and only if only
\* whitespace lies between them; two VMT_ENGINE blocks, a blank line and three
\* more give one run and four Item blocks, and with a comment line instead of
\* the blank line two runs and eight Item blocks.
C4_GapRule ==
    Grouped =>
        /\ \A k \in 1..(Len(items) - 1) :
               ( /\ Qualifying(items[k])
                 /\ Qualifying(items[k + 1])
                 /\ Upper(items[k].vtype) = Upper(items[k + 1].vtype) )
               => (SameRun(k) <=> BlankGap(k))
        /\ text = ScenarioB =>
               Len(groups) = 1 /\ Count(new_text, ITEM_OPEN) = 4
        /\ text = ScenarioC =>
               Len(groups) = 2 /\ Count(new_text, ITEM_OPEN) = 8

\* Same-typed qualifying neighbours with a blank gap and with a gap that is
\* not blank, in one text.
C4_Witness ==
    /\ Grouped
    /\ \E k \in 1..(Len(items) - 1) :
           /\ Qualifying(items[k]) /\ Qualifying(items[k + 1])
           /\ Upper(items[k].vtype) = Upper(items[k + 1].vtype)
           /\ ~BlankGap(k)
    /\ \E k \in 1..(Len(items) - 1) :
           /\ Qualifying(items[k]) /\ Qualifying(items[k + 1])
           /\ Upper(items[k].vtype) = Upper(items[k + 1].vtype)
           /\ BlankGap(k)

\* C5 (Inclusion policy): every block within the span of a run, emitted or
\* being built, has a type that is present, starts with VMT_ once upper-cased
\* and, without --any, is one of the three targets; without --any a file
\* whose blocks are all VMT_SUSPENSION gets no run and keeps its content; with
\* --any a VMT_CUSTOM_XYZ block is within a run once the grouping has ended.
C5_InclusionPolicy ==
    InFile =>
        /\ \A m \in 1..Len(groups), k \in 1..Len(items) :
               Within(items[k], groups[m]) => Qualifying(items[k])
        /\ pc = "inner" =>
               \A k \in i..(j - 1) : Qualifying(At(items, k))
        /\ ( /\ ~args.any
             /\ \A k \in 1..Len(items) : items[k].vtype = <<"VMT_SUSPENSION">> )
           => pc = "while" /\ groups = <<>> /\ disk[meta] = text
        /\ (args.any /\ Grouped) =>
               \A k \in 1..Len(items) :
                   items[k].vtype = <<"VMT_CUSTOM_XYZ">> =>
                       \E m \in 1..Len(groups) : Within(items[k], groups[m])

\* Without --any, a run next to a VMT_SUSPENSION block that was left out.
C5_Witness ==
    /\ Grouped
    /\ ~args.any
    /\ \E k \in 1..Len(items) :
           /\ items[k].vtype = <<"VMT_SUSPENSION">>
           /\ \A m \in 1..Len(groups) : ~Within(items[k], groups[m])

\* C9 (Run partition): throughout the grouping loop and after it, every
\* emitted run has start < end, the runs ascend without overlap, every
\* qualifying block before index i lies in exactly one run and every other
\* block in none (so the block a run stopped at is the next one examined),
\* and the run being built spans exactly the blocks i..j-1.
C9_RunPartition ==
    InFile =>
        /\ \A m \in 1..Len(groups) : groups[m].start < groups[m].end
        /\ \A m \in 1..(Len(groups) - 1) :
               /\ groups[m].end <= groups[m + 1].start
               /\ groups[m].start < groups[m + 1].start
        /\ i <= Len(items)
        /\ \A k \in 0..(Len(items) - 1) :
               Cardinality({m \in 1..Len(groups) : Within(At(items, k), groups[m])})
                   = IF k < i /\ Qualifying(At(items, k)) THEN 1 ELSE 0
        /\ pc = "inner" =>
               /\ i < j /\ j <= Len(items)
               /\ group_start = At(items, i).start
               /\ group_end = At(items, j - 1).end
        /\ Grouped => i = Len(items)

\* A run has just stopped at a qualifying block, after a run of one block
\* was emitted.
C9_Witness ==
    /\ pc = "while"
    /\ i < Len(items)
    /\ Qualifying(At(items, i))
    /\ Len(groups) >= 2
    /\ \E m \in 1..Len(groups) :
           Cardinality({k \in 1..Len(items) : Within(items[k], groups[m])}) = 1

\* C1 (Idempotence): when main is run again on the files it wrote, the text
\* it computes for a file is the text it read.
C1_Idempotence ==
    (exec >= 2 /\ Grouped) => new_text = text

\* The offset of the nearest lexeme tok at or after offset k, or -1.
RECURSIVE Find(_, _, _)
Find(s, tok, k) ==
    IF k >= Len(s) THEN -1
    ELSE IF At(s, k) = tok THEN k
    ELSE Find(s, tok, k + 1)

\* The type of a block by its first <type>...</type> tag: the trimmed content
\* of that tag, None without one.
FirstTagType(inner) ==
    LET k == Find(inner, TYPE_OPEN, 0)
        e == IF k < 0 THEN -1 ELSE Find(inner, TYPE_CLOSE, k + 1)
    IN  IF e < 0 THEN None ELSE Strip(Slice(inner, k + 1, e))

\* C10 (Type extraction): the type of every scanned block is the trimmed
\* content of the first type tag of the block, and absent exactly when the
\* block has no type tag; a block whose type is absent or empty lies in no
\* run.
C10_TypeExtraction ==
    InFile =>
        \A k \in 1..Len(items) :
            /\ items[k].vtype = FirstTagType(InnerOf(text, items[k]))
            /\ FirstTagType(InnerOf(text, items[k])) \in {None, <<>>} =>
                   \A m \in 1..Len(groups) : ~Within(items[k], groups[m])

\* items is the scan of text and has just been made.
Scanned ==
    \/ pc = "while" /\ i = 0
    \/ pc = "for" /\ meta > 0 /\ items = <<>>

\* The offsets of the opening tags of the Item elements of t.
Elements(t) ==
    {q \in 0..(Len(t) - 1) : At(t, q) = ITEM_OPEN /\ FindClose(t, q + 1) >= 0}

\* No Item element of t is opened inside another, and every one is closed.
Flat(t) ==
    \A q \in 0..(Len(t) - 1) :
        At(t, q) = ITEM_OPEN =>
            /\ FindClose(t, q + 1) >= 0
            /\ \A r \in (q + 1)..FindClose(t, q + 1) : At(t, r) # ITEM_OPEN

\* Where the spaces and tabs that immediately precede offset q begin.
RECURSIVE IndentStart(_, _)
IndentStart(t, q) ==
    IF q > 0 /\ At(t, q - 1) \in {" ", "\t"} THEN IndentStart(t, q - 1) ELSE q

Ascending(bs) == \A n \in 1..(Len(bs) - 1) : bs[n].end <= bs[n + 1].start

LineElements(t) ==
    {q \in Elements(t) :
        IndentStart(t, q) = 0 \/ At(t, IndentStart(t, q) - 1) = "\n"}

C7_Step ==
    /\ disk' # disk =>
           /\ pc = "write" /\ ~args.dry_run /\ groups # <<>>
           /\ bak[meta] = disk[meta]
           /\ bak' = bak
           /\ updated' = updated + 1
           /\ \A m \in DOMAIN disk : m # meta => disk'[m] = disk[m]
    /\ updated' > updated =>
           pc = "write" /\ ~args.dry_run /\ groups # <<>>
    /\ bak' # bak =>
           /\ pc = "apply" /\ pc' = "write" /\ ~args.dry_run
           /\ bak'[meta] = disk[meta]
    /\ args.dry_run => disk' = disk /\ bak' = bak

\* C7 (Backup before modification): a step that changes a file is the write
\* step of a run without --dry-run that found at least one run, it happens
\* with the .bak copy holding the content being overwritten, and it is the
\* step that counts the file as updated; a .bak copy is only made by the step
\* right before that write; under --dry-run no step changes a file or a .bak
\* copy.
C7_BackupBeforeWrite == [][C7_Step]_vars

\* A file has been overwritten by the second run of main.
C7_Witness ==
    /\ exec = 2 /\ pc = "for" /\ meta > 0
    /\ out # <<>> /\ out[Len(out)].kind = "Updated"
    /\ bak[meta] = text /\ disk[meta] = new_text

\* C8 (Empty results): when the file just processed has no Item block, or has
\* blocks none of which qualifies, its content and the absence of a .bak copy
\* are as before, the last message names the case (a different message for
\* each) and the file is not counted as updated; and main ends only after
\* every file got its one message.
C8_EmptyResults ==
    /\ ( /\ pc = "for" /\ meta > 0
         /\ \A k \in 1..Len(items) : ~Qualifying(items[k]) )
       => /\ disk[meta] = text
          /\ bak[meta] = NoFile
          /\ out # <<>>
          /\ out[Len(out)] =
                 [kind |-> IF items = <<>> THEN "No <Item> blocks"
                           ELSE "No matching VMT items",
                  meta |-> meta, n |-> 0]
          /\ updated = Cardinality({k \in 1..Len(out) : out[k].kind = "Updated"})
    /\ pc = "done" =>
           /\ meta = Len(disk)
           /\ \A m \in 1..Len(disk) :
                  Cardinality({k \in 1..Len(out) :
                                  /\ out[k].meta = m
                                  /\ out[k].kind # "Done. Files updated"}) = 1

\* main has ended after a file without Item blocks and a file without runs.
C8_Witness ==
    /\ pc = "done"
    /\ \E a \in 1..Len(out) : out[a].kind = "No <Item> blocks"
    /\ \E b \in 1..Len(out) : out[b].kind = "No matching VMT items"

====
